---- MODULE Spec2Model ----
(***************************************************************************)
(* Model of drivers/irqchip/firq/firq_driver.c: the FIQ demo platform      *)
(* driver.  firq_probe() is "start", firq_remove() is "stop".  Every       *)
(* statement of the two entry points that touches shared state is one      *)
(* step of the calling thread (or of the kworker that work_on_cpu() runs   *)
(* the callback on), so orderings inside a call are observable.            *)
(***************************************************************************)
EXTENDS Integers, Naturals, Sequences, FiniteSets, TLC

(* ------------------------------ bounds --------------------------------- *)
\* number of possible CPUs (for_each_possible_cpu): cores 0 .. NrCpus-1
NrCpus == 2
\* platform devices matching "denx,fiq": devices 1 .. NrDevs
NrDevs == 2
\* largest interrupt number platform_get_irq() hands out: lines 0 .. MaxIrq
MaxIrq == 1
\* firq_remove() calls that are followed (history counter nStops is capped)
MaxStops == 1

(* --------------------------- program constants ------------------------- *)
\* size of the erased OCRAM window in bytes (0x100), line 59
OcramEraseBytes == 256
\* EPIT register offsets, lines 140-147
EPIT_CR == 0
EPIT_SR == 4
EPIT_LR == 8
\* reload value written to LR (0xffff), line 141
EpitReload == 65535
\* errno values returned by firq_probe
EBUSY == 16
ENOMEM == 12
EINVAL == 22
ENODEV == 19
\* physical addresses handed to devm_ioremap, lines 99-101
GicPhys == 10486016
OcramPhys == 9699328
EpitPhys == 34422784

Cpus == 0 .. (NrCpus - 1)
Devs == 1 .. NrDevs
OcramWords == 0 .. ((OcramEraseBytes \div 4) - 1)

\* (u32)x.  TLC's integers are 32-bit signed, so the model's machine word is
\* 31 bits wide: words lie in 0 .. 2^31 - 1 and a negative value wraps to the
\* top of that range.
U32(x) == IF x < 0 THEN (x + 2147483647) + 1 ELSE x
Bit(v, n) == (v \div (2 ^ n)) % 2

\* Control word of lines 143-145: EN, ENMOD, OCIEN, RLD, WAITEN, CLKSRC=0x2
EpitCrEnable == (2 ^ 0) + (2 ^ 1) + (2 ^ 2) + (2 ^ 3) + (2 ^ 19) + (2 * (2 ^ 24))

\* devm_ioremap(): a fresh virtual address per mapping that keeps the page
\* offset of the physical address; window w of device d gets its own page.
VmallocBase == 7 * (2 ^ 28)
IoremapVA(d, w, phys) == VmallocBase + ((3 * (d - 1) + w) * 4096) + (phys % 4096)

\* what platform_get_irq(pdev, 0) may return: a line number or an error (< 0)
IrqResults == (0 .. MaxIrq) \cup {0 - 1}

NoPriv == [gic_cpu_regs |-> 0, ocram_regs |-> 0, epit2_regs |-> 0, irq |-> 0]
NoWork == [state |-> "none", cpu |-> 0, fn |-> "none", sp |-> 0, lr |-> 0, r8 |-> 0]

VARIABLES
  firq_singleton,  \* static bool firq_singleton (line 32)
  current_fiq,     \* owner of the FIQ vector: "default", "other", "fiqdemo"
  fh_next,         \* fh.next, the owner fh was stacked on by claim_fiq
  fiq_handler,     \* code installed in the FIQ vector by set_fiq_handler
  ocram,           \* the 256-byte OCRAM window, word by word
  fiq_regs,        \* per-core FIQ-mode banked registers
  fiq_masked,      \* per-core CPSR.F (local_fiq_disable / local_fiq_enable)
  fiq_enabled,     \* interrupt lines enabled by enable_fiq
  epit,            \* EPIT2 registers CR, SR, LR
  pc,              \* per device: position of the probe/remove call on it
  priv,            \* per device: struct firq_priv of the running probe
  drvdata,         \* per device: platform_set_drvdata value
  cpu,             \* per device: core the calling thread runs on
  idx,             \* per device: loop variable i / cpu of firq_setup_fiq_regs
  work,            \* per device: the work_on_cpu item of the call
  ret,             \* per device: value returned by the last call
  lastcall,        \* per device: "none", "probe" or "remove" (last call made)
  bootLog,         \* per device: bootstrap operations of the current dispatch
  barrier,         \* per device: dmb() of the current setup executed
  enableCpu,       \* core that executed enable_fiq for the running instance
  nStops,          \* completed firq_remove calls (capped by MaxStops)
  prevcall,        \* serial callers: outcome of the call before the last one
  fiq_handler_size \* firq_fiq_handler_end - firq_fiq_handler (lines 82-83)

vars == << firq_singleton, current_fiq, fh_next, fiq_handler, ocram, fiq_regs,
           fiq_masked, fiq_enabled, epit, pc, priv, drvdata, cpu, idx, work,
           ret, lastcall, bootLog, barrier, enableCpu, nStops, prevcall, fiq_handler_size >>

\* variables of the hardware and of the kernel's FIQ bookkeeping
hw == << firq_singleton, current_fiq, fh_next, fiq_handler, ocram, fiq_regs,
         fiq_masked, fiq_enabled, epit >>

\* a value no provisioning writes: stale contents of the OCRAM
Garbage == (2 ^ 30) - 1

\* length in bytes of the handler blob the driver is linked with
FiqHandlerBytes == 4 * 16

\* everything but the length of the handler blob
InitState ==
  /\ firq_singleton = FALSE
  /\ current_fiq = "default"
  /\ fh_next = "default"
  /\ fiq_handler = "none"
  /\ ocram \in { [w \in OcramWords |-> 0], [w \in OcramWords |-> Garbage - w] }
  /\ fiq_regs = [c \in Cpus |-> [ARM_sp |-> 0, ARM_lr |-> 100 + c, ARM_r8 |-> 200 + c]]
  /\ fiq_masked = [c \in Cpus |-> FALSE]
  /\ fiq_enabled = {}
  /\ epit = [CR |-> 0, SR |-> 0, LR |-> 0]
  /\ pc = [d \in Devs |-> "unbound"]
  /\ priv = [d \in Devs |-> NoPriv]
  /\ drvdata = [d \in Devs |-> NoPriv]
  /\ cpu = [d \in Devs |-> 0]
  /\ idx = [d \in Devs |-> 0]
  /\ work = [d \in Devs |-> NoWork]
  /\ ret = [d \in Devs |-> 0]
  /\ lastcall = [d \in Devs |-> "none"]
  /\ bootLog = [d \in Devs |-> << >>]
  /\ barrier = [d \in Devs |-> FALSE]
  /\ enableCpu = 0
  /\ nStops = 0
  /\ prevcall = "none"

\* the driver as built: the handler blob is not empty
Init == InitState /\ fiq_handler_size = FiqHandlerBytes

\* the driver linked with any handler blob, the empty one included
InitAnyBlob == InitState /\ fiq_handler_size \in {0, FiqHandlerBytes}

(* ------------------------- kernel primitives --------------------------- *)
\* writel(val, priv->ocram_regs + off): a 32-bit store to OCRAM byte offset off
OcramWritel(mem, off, val) == [mem EXCEPT ![off \div 4] = U32(val)]

\* writel(val, priv->epit2_regs + off).  SR is write-one-to-clear.
EpitWritel(regs, off, val) ==
  IF off = EPIT_CR THEN [regs EXCEPT !.CR = U32(val)]
  ELSE IF off = EPIT_LR THEN [regs EXCEPT !.LR = U32(val)]
  ELSE [regs EXCEPT !.SR = IF Bit(val, 0) = 1 THEN 0 ELSE regs.SR]

\* claim_fiq(&fh): 0 when the current owner gives the vector up, else -EBUSY.
\* The default owner always yields; fh itself has no fiq_op and never does;
\* another client yields or not (yield is its fiq_op's answer).
ClaimFiqResult(owner, yield) ==
  IF owner = "default" THEN 0
  ELSE IF owner = "other" /\ yield THEN 0
  ELSE 0 - EBUSY

\* set_fiq_handler(start, length) copies length bytes of code into the vector
SetFiqHandler(installed, start, length) == IF length > 0 THEN start ELSE installed

\* The values ocram_setupdata[] holds (lines 52-56)
OcramSetupData(p) == << U32(p.gic_cpu_regs), U32(p.irq), U32(p.epit2_regs) >>

\* no probe or remove call is in progress on any device
Quiescent == \A d \in Devs : pc[d] \in {"unbound", "bound"}

\* how the last call ended, read when no call is in progress
LastOutcome ==
  IF \E e \in Devs : lastcall[e] = "remove" THEN "remove"
  ELSE IF \E e \in Devs : lastcall[e] = "probe" /\ pc[e] = "bound" THEN "probe_ok"
  ELSE IF \E e \in Devs : lastcall[e] = "probe" THEN "probe_failed"
  ELSE "none"

callvars == << pc, priv, drvdata, cpu, idx, work, ret, lastcall, bootLog,
               barrier, enableCpu, nStops, prevcall, fiq_handler_size >>

Goto(d, l) == pc' = [pc EXCEPT ![d] = l]

\* firq_probe returns the error -err
ProbeFail(d, err) ==
  /\ pc' = [pc EXCEPT ![d] = "probe_failed"]
  /\ ret' = [ret EXCEPT ![d] = 0 - err]

(* ------------------------------ firq_probe ----------------------------- *)
\* The driver core calls firq_probe for an unbound device, on some core.
EnterProbe(d) ==
  /\ pc[d] = "unbound"
  /\ \E c \in Cpus : cpu' = [cpu EXCEPT ![d] = c]
  /\ Goto(d, "probe_singleton")
  /\ UNCHANGED << hw, priv, drvdata, idx, work, bootLog, barrier, enableCpu, nStops,
                  fiq_handler_size >>

\* Calls arrive one at a time: the caller has consumed the value of every
\* earlier call before it makes this one.
ProbeCall(d) ==
  /\ Quiescent
  /\ EnterProbe(d)
  /\ ret' = [e \in Devs |-> 0]
  /\ lastcall' = [e \in Devs |-> IF e = d THEN "probe" ELSE "none"]
  /\ prevcall' = LastOutcome

\* Calls on different devices may overlap.
ProbeCallConcurrent(d) ==
  /\ EnterProbe(d)
  /\ ret' = [ret EXCEPT ![d] = 0]
  /\ lastcall' = [lastcall EXCEPT ![d] = "probe"]
  /\ UNCHANGED prevcall

\* mutant: the singleton test of line 85 is missing
ProbeSingleton_NoCheck(d) ==
  /\ pc[d] = "probe_singleton"
  /\ Goto(d, "probe_alloc")
  /\ UNCHANGED << hw, ret, priv, cpu, drvdata, idx, work, lastcall, bootLog,
                  barrier, enableCpu, nStops, prevcall, fiq_handler_size >>

\* mutant: the flag is set together with the test, and no error path clears it
ProbeSingleton_SetEarly(d) ==
  /\ pc[d] = "probe_singleton"
  /\ IF firq_singleton
       THEN ProbeFail(d, EBUSY) /\ UNCHANGED firq_singleton
       ELSE Goto(d, "probe_alloc") /\ firq_singleton' = TRUE /\ UNCHANGED ret
  /\ UNCHANGED << current_fiq, fh_next, fiq_handler, ocram, fiq_regs,
                  fiq_masked, fiq_enabled, epit, priv, cpu, drvdata, idx, work,
                  lastcall, bootLog, barrier, enableCpu, nStops, prevcall, fiq_handler_size >>

\* lines 85-86
ProbeSingleton(d) ==
  /\ pc[d] = "probe_singleton"
  /\ IF firq_singleton
       THEN ProbeFail(d, EBUSY)
       ELSE Goto(d, "probe_alloc") /\ UNCHANGED ret
  /\ UNCHANGED << hw, priv, cpu, drvdata, idx, work, lastcall, bootLog, barrier,
                  enableCpu, nStops, prevcall, fiq_handler_size >>

\* lines 88-90: devm_kzalloc may fail
ProbeAlloc(d) ==
  /\ pc[d] = "probe_alloc"
  /\ \E ok \in BOOLEAN :
       IF ok
         THEN /\ priv' = [priv EXCEPT ![d] = NoPriv]
              /\ Goto(d, "probe_irq")
              /\ UNCHANGED ret
         ELSE ProbeFail(d, ENOMEM) /\ UNCHANGED priv
  /\ UNCHANGED << hw, cpu, drvdata, idx, work, lastcall, bootLog, barrier,
                  enableCpu, nStops, prevcall, fiq_handler_size >>

\* lines 92-96
ProbeIrq(d) ==
  /\ pc[d] = "probe_irq"
  /\ \E n \in IrqResults :
       /\ priv' = [priv EXCEPT ![d].irq = n]
       /\ IF n < 0
            THEN ProbeFail(d, EINVAL)
            ELSE Goto(d, "probe_ioremap") /\ UNCHANGED ret
  /\ UNCHANGED << hw, cpu, drvdata, idx, work, lastcall, bootLog, barrier,
                  enableCpu, nStops, prevcall, fiq_handler_size >>

\* mutant: the NULL test of lines 103-106 is missing
ProbeIoremap_NoCheck(d) ==
  /\ pc[d] = "probe_ioremap"
  /\ \E g \in {0, IoremapVA(d, 0, GicPhys)},
        o \in {0, IoremapVA(d, 1, OcramPhys)},
        e \in {0, IoremapVA(d, 2, EpitPhys)} :
       /\ priv' = [priv EXCEPT ![d].gic_cpu_regs = g,
                               ![d].ocram_regs = o,
                               ![d].epit2_regs = e]
       /\ Goto(d, "probe_claim")
  /\ UNCHANGED << hw, cpu, drvdata, idx, work, ret, lastcall, bootLog, barrier,
                  enableCpu, nStops, prevcall, fiq_handler_size >>

\* lines 99-106: each devm_ioremap returns a mapping or NULL
ProbeIoremap(d) ==
  /\ pc[d] = "probe_ioremap"
  /\ \E g \in {0, IoremapVA(d, 0, GicPhys)},
        o \in {0, IoremapVA(d, 1, OcramPhys)},
        e \in {0, IoremapVA(d, 2, EpitPhys)} :
       /\ priv' = [priv EXCEPT ![d].gic_cpu_regs = g,
                               ![d].ocram_regs = o,
                               ![d].epit2_regs = e]
       /\ IF g = 0 \/ o = 0 \/ e = 0
            THEN ProbeFail(d, EINVAL)
            ELSE Goto(d, "probe_claim") /\ UNCHANGED ret
  /\ UNCHANGED << hw, cpu, drvdata, idx, work, lastcall, bootLog, barrier,
                  enableCpu, nStops, prevcall, fiq_handler_size >>


\* mutant: the handler is copied into the vector before the result of
\* claim_fiq is looked at
ProbeClaim_HandlerBeforeCheck(d) ==
  /\ pc[d] = "probe_claim"
  /\ fiq_handler' = SetFiqHandler(fiq_handler, "firq_fiq_handler", fiq_handler_size)
  /\ \E yield \in BOOLEAN :
       IF ClaimFiqResult(current_fiq, yield) # 0
         THEN /\ ProbeFail(d, ENODEV)
              /\ UNCHANGED << current_fiq, fh_next >>
         ELSE /\ fh_next' = current_fiq
              /\ current_fiq' = "fiqdemo"
              /\ Goto(d, "probe_set_handler")
              /\ UNCHANGED ret
  /\ UNCHANGED << firq_singleton, ocram, fiq_regs, fiq_masked,
                  fiq_enabled, epit, priv, cpu, drvdata, idx, work, lastcall, bootLog,
                  barrier, enableCpu, nStops, prevcall, fiq_handler_size >>

\* lines 114-117: claim_fiq(&fh)
ProbeClaim(d) ==
  /\ pc[d] = "probe_claim"
  /\ \E yield \in BOOLEAN :
       IF ClaimFiqResult(current_fiq, yield) # 0
         THEN /\ ProbeFail(d, ENODEV)
              /\ UNCHANGED << current_fiq, fh_next >>
         ELSE /\ fh_next' = current_fiq
              /\ current_fiq' = "fiqdemo"
              /\ Goto(d, "probe_set_handler")
              /\ UNCHANGED ret
  /\ UNCHANGED << firq_singleton, fiq_handler, ocram, fiq_regs, fiq_masked,
                  fiq_enabled, epit, priv, cpu, drvdata, idx, work, lastcall, bootLog,
                  barrier, enableCpu, nStops, prevcall, fiq_handler_size >>

\* lines 86-116, after a return of an error: the driver core releases the
\* device's devm resources (priv and the mappings)
ProbeRelease(d) ==
  /\ pc[d] = "probe_failed"
  /\ priv' = [priv EXCEPT ![d] = NoPriv]
  /\ cpu' = [cpu EXCEPT ![d] = 0]
  /\ Goto(d, "unbound")
  /\ UNCHANGED << hw, drvdata, idx, work, ret, lastcall, bootLog, barrier,
                  enableCpu, nStops, prevcall, fiq_handler_size >>

\* line 126: set_fiq_handler(firq_fiq_handler, fiq_handler_size)
ProbeSetHandler(d) ==
  /\ pc[d] = "probe_set_handler"
  /\ fiq_handler' = SetFiqHandler(fiq_handler, "firq_fiq_handler", fiq_handler_size)
  /\ idx' = [idx EXCEPT ![d] = 0]
  /\ Goto(d, "setup_erase")
  /\ UNCHANGED << firq_singleton, current_fiq, fh_next, ocram, fiq_regs,
                  fiq_masked, fiq_enabled, epit, priv, drvdata, cpu, work, ret,
                  lastcall, bootLog, barrier, enableCpu, nStops, prevcall, fiq_handler_size >>

(* -------------------------- firq_setup_fiq_regs ------------------------ *)
\* lines 59-60: one writel(0, ...) of the erase loop, or its exit
SetupErase(d) ==
  /\ pc[d] = "setup_erase"
  /\ IF idx[d] < OcramEraseBytes
       THEN /\ ocram' = OcramWritel(ocram, idx[d], 0)
            /\ idx' = [idx EXCEPT ![d] = idx[d] + 4]
            /\ UNCHANGED pc
       ELSE /\ idx' = [idx EXCEPT ![d] = 0]
            /\ Goto(d, "setup_preload")
            /\ UNCHANGED ocram
  /\ UNCHANGED << firq_singleton, current_fiq, fh_next, fiq_handler, fiq_regs,
                  fiq_masked, fiq_enabled, epit, priv, drvdata, cpu, work, ret,
                  lastcall, bootLog, barrier, enableCpu, nStops, prevcall, fiq_handler_size >>

\* mutant: the preload loop stops one element early
SetupPreload_OffByOne(d) ==
  /\ pc[d] = "setup_preload"
  /\ IF idx[d] < Len(OcramSetupData(priv[d])) - 1
       THEN /\ ocram' = OcramWritel(ocram, 4 * idx[d], OcramSetupData(priv[d])[idx[d] + 1])
            /\ idx' = [idx EXCEPT ![d] = idx[d] + 1]
            /\ UNCHANGED pc
       ELSE /\ idx' = [idx EXCEPT ![d] = 0]
            /\ Goto(d, "setup_dmb")
            /\ UNCHANGED ocram
  /\ UNCHANGED << firq_singleton, current_fiq, fh_next, fiq_handler, fiq_regs,
                  fiq_masked, fiq_enabled, epit, priv, drvdata, cpu, work, ret,
                  lastcall, bootLog, barrier, enableCpu, nStops, prevcall, fiq_handler_size >>

\* lines 63-64: one writel(ocram_setupdata[i], ...) of the preload loop
SetupPreload(d) ==
  /\ pc[d] = "setup_preload"
  /\ IF idx[d] < Len(OcramSetupData(priv[d]))
       THEN /\ ocram' = OcramWritel(ocram, 4 * idx[d], OcramSetupData(priv[d])[idx[d] + 1])
            /\ idx' = [idx EXCEPT ![d] = idx[d] + 1]
            /\ UNCHANGED pc
       ELSE /\ idx' = [idx EXCEPT ![d] = 0]
            /\ Goto(d, "setup_dmb")
            /\ UNCHANGED ocram
  /\ UNCHANGED << firq_singleton, current_fiq, fh_next, fiq_handler, fiq_regs,
                  fiq_masked, fiq_enabled, epit, priv, drvdata, cpu, work, ret,
                  lastcall, bootLog, barrier, enableCpu, nStops, prevcall, fiq_handler_size >>

\* mutant: the dmb() of line 66 is missing
SetupDmb_Omitted(d) ==
  /\ pc[d] = "setup_dmb"
  /\ idx' = [idx EXCEPT ![d] = 0]
  /\ Goto(d, "setup_dispatch")
  /\ UNCHANGED << hw, priv, drvdata, cpu, work, ret, lastcall, bootLog, barrier,
                  enableCpu, nStops, prevcall, fiq_handler_size >>

\* line 66: dmb()
SetupDmb(d) ==
  /\ pc[d] = "setup_dmb"
  /\ barrier' = [barrier EXCEPT ![d] = TRUE]
  /\ idx' = [idx EXCEPT ![d] = 0]
  /\ Goto(d, "setup_dispatch")
  /\ UNCHANGED << hw, priv, drvdata, cpu, work, ret, lastcall, bootLog,
                  enableCpu, nStops, prevcall, fiq_handler_size >>

\* mutant: the loop leaves out the last possible cpu
SetupDispatch_SkipsLastCpu(d) ==
  /\ pc[d] = "setup_dispatch"
  /\ IF idx[d] < NrCpus - 1
       THEN /\ work' = [work EXCEPT ![d] = [NoWork EXCEPT !.state = "queued",
                                                          !.cpu = idx[d],
                                                          !.fn = "firq_setup_fiq_regs_cpu"]]
            /\ Goto(d, "setup_wait")
       ELSE /\ Goto(d, "probe_drvdata")
            /\ UNCHANGED work
  /\ UNCHANGED << hw, priv, drvdata, cpu, idx, ret, lastcall, bootLog, barrier,
                  enableCpu, nStops, prevcall, fiq_handler_size >>

\* mutant: every callback is queued on cpu 0 (work_on_cpu(0, ...))
SetupDispatch_OnCpu0(d) ==
  /\ pc[d] = "setup_dispatch"
  /\ IF idx[d] < NrCpus
       THEN /\ work' = [work EXCEPT ![d] = [NoWork EXCEPT !.state = "queued",
                                                          !.cpu = 0,
                                                          !.fn = "firq_setup_fiq_regs_cpu"]]
            /\ Goto(d, "setup_wait")
       ELSE /\ Goto(d, "probe_drvdata")
            /\ UNCHANGED work
  /\ UNCHANGED << hw, priv, drvdata, cpu, idx, ret, lastcall, bootLog, barrier,
                  enableCpu, nStops, prevcall, fiq_handler_size >>

\* lines 68-69: for_each_possible_cpu(cpu) work_on_cpu(cpu, ...): queue the
\* callback on the next possible cpu, or leave the loop after the last one
SetupDispatch(d) ==
  /\ pc[d] = "setup_dispatch"
  /\ IF idx[d] < NrCpus
       THEN /\ work' = [work EXCEPT ![d] = [NoWork EXCEPT !.state = "queued",
                                                          !.cpu = idx[d],
                                                          !.fn = "firq_setup_fiq_regs_cpu"]]
            /\ Goto(d, "setup_wait")
       ELSE /\ Goto(d, "probe_drvdata")
            /\ UNCHANGED work
  /\ UNCHANGED << hw, priv, drvdata, cpu, idx, ret, lastcall, bootLog, barrier,
                  enableCpu, nStops, prevcall, fiq_handler_size >>

\* line 40: get_fiq_regs(&fiq_regs), on the core the work item runs on
BootstrapGet(d) ==
  /\ work[d].fn = "firq_setup_fiq_regs_cpu"
  /\ work[d].state = "queued"
  /\ work' = [work EXCEPT ![d].state = "got",
                          ![d].sp = fiq_regs[work[d].cpu].ARM_sp,
                          ![d].lr = fiq_regs[work[d].cpu].ARM_lr,
                          ![d].r8 = fiq_regs[work[d].cpu].ARM_r8]
  /\ UNCHANGED << hw, pc, priv, drvdata, cpu, idx, ret, lastcall, bootLog,
                  barrier, enableCpu, nStops, prevcall, fiq_handler_size >>

\* mutant: a zeroed register set with only sp filled in is written back
BootstrapSet_ResetsBank(d) ==
  /\ work[d].fn = "firq_setup_fiq_regs_cpu"
  /\ work[d].state = "got"
  /\ fiq_regs' = [fiq_regs EXCEPT ![work[d].cpu] =
                    [ARM_sp |-> U32(priv[d].ocram_regs), ARM_lr |-> 0, ARM_r8 |-> 0]]
  /\ work' = [work EXCEPT ![d].state = "done"]
  /\ bootLog' = [bootLog EXCEPT ![d] = Append(bootLog[d], [target |-> idx[d], on |-> work[d].cpu])]
  /\ UNCHANGED << firq_singleton, current_fiq, fh_next, fiq_handler, ocram,
                  fiq_masked, fiq_enabled, epit, pc, priv, drvdata, cpu, idx,
                  ret, lastcall, barrier, enableCpu, nStops, prevcall, fiq_handler_size >>

\* lines 42-45: fiq_regs.ARM_sp = (u32)priv->ocram_regs; set_fiq_regs(&fiq_regs)
BootstrapSet(d) ==
  /\ work[d].fn = "firq_setup_fiq_regs_cpu"
  /\ work[d].state = "got"
  /\ fiq_regs' = [fiq_regs EXCEPT ![work[d].cpu] =
                    [ARM_sp |-> U32(priv[d].ocram_regs),
                     ARM_lr |-> work[d].lr,
                     ARM_r8 |-> work[d].r8]]
  /\ work' = [work EXCEPT ![d].state = "done"]
  /\ bootLog' = [bootLog EXCEPT ![d] = Append(bootLog[d], [target |-> idx[d], on |-> work[d].cpu])]
  /\ UNCHANGED << firq_singleton, current_fiq, fh_next, fiq_handler, ocram,
                  fiq_masked, fiq_enabled, epit, pc, priv, drvdata, cpu, idx,
                  ret, lastcall, barrier, enableCpu, nStops, prevcall, fiq_handler_size >>

\* line 69: work_on_cpu returns once the callback has completed
SetupWait(d) ==
  /\ pc[d] = "setup_wait"
  /\ work[d].state = "done"
  /\ work' = [work EXCEPT ![d] = NoWork]
  /\ idx' = [idx EXCEPT ![d] = idx[d] + 1]
  /\ Goto(d, "setup_dispatch")
  /\ UNCHANGED << hw, priv, drvdata, cpu, ret, lastcall, bootLog, barrier,
                  enableCpu, nStops, prevcall, fiq_handler_size >>

(* ------------------------ firq_probe, second half ---------------------- *)
\* line 131: platform_set_drvdata(pdev, priv)
ProbeDrvdata(d) ==
  /\ pc[d] = "probe_drvdata"
  /\ drvdata' = [drvdata EXCEPT ![d] = priv[d]]
  /\ idx' = [idx EXCEPT ![d] = 0]
  /\ Goto(d, "probe_enable")
  /\ UNCHANGED << hw, priv, cpu, work, ret, lastcall, bootLog, barrier,
                  enableCpu, nStops, prevcall, fiq_handler_size >>

\* mutant: the enable_fiq() of line 134 is missing
ProbeEnable_Skipped(d) ==
  /\ pc[d] = "probe_enable"
  /\ enableCpu' = cpu[d]
  /\ Goto(d, "probe_set_singleton")
  /\ UNCHANGED << hw, priv, drvdata, cpu, idx, work, ret, lastcall, bootLog,
                  barrier, nStops, prevcall, fiq_handler_size >>

\* line 134: enable_fiq(priv->irq), on the calling core
ProbeEnable(d) ==
  /\ pc[d] = "probe_enable"
  /\ fiq_enabled' = fiq_enabled \cup {priv[d].irq}
  /\ enableCpu' = cpu[d]
  /\ Goto(d, "probe_set_singleton")
  /\ UNCHANGED << firq_singleton, current_fiq, fh_next, fiq_handler, ocram,
                  fiq_regs, fiq_masked, epit, priv, drvdata, cpu, idx, work,
                  ret, lastcall, bootLog, barrier, nStops, prevcall, fiq_handler_size >>

\* line 137: firq_singleton = true
ProbeSetSingleton(d) ==
  /\ pc[d] = "probe_set_singleton"
  /\ firq_singleton' = TRUE
  /\ Goto(d, "epit_cr_off")
  /\ UNCHANGED << current_fiq, fh_next, fiq_handler, ocram, fiq_regs,
                  fiq_masked, fiq_enabled, epit, priv, drvdata, cpu, idx, work,
                  ret, lastcall, bootLog, barrier, enableCpu, nStops, prevcall, fiq_handler_size >>

\* one writel to an EPIT register, then on to the next statement
EpitStore(d, from, off, val, to) ==
  /\ pc[d] = from
  /\ epit' = EpitWritel(epit, off, val)
  /\ Goto(d, to)
  /\ UNCHANGED << firq_singleton, current_fiq, fh_next, fiq_handler, ocram,
                  fiq_regs, fiq_masked, fiq_enabled, priv, drvdata, cpu, idx,
                  work, ret, lastcall, bootLog, barrier, enableCpu, nStops, prevcall, fiq_handler_size >>

\* mutant: the first store already writes the enabling control word
EpitCrOff_WritesEnable(d) == EpitStore(d, "epit_cr_off", EPIT_CR, EpitCrEnable, "epit_lr")
\* line 140: writel(0x0, CR)
EpitCrOff(d) == EpitStore(d, "epit_cr_off", EPIT_CR, 0, "epit_lr")
\* line 141: writel(0xffff, LR)
EpitLr(d) == EpitStore(d, "epit_lr", EPIT_LR, EpitReload, "epit_sr")
\* line 142: writel(0x1, SR)
EpitSr(d) == EpitStore(d, "epit_sr", EPIT_SR, 1, "epit_cr_on")
\* lines 143-145: writel(EN | ENMOD | OCIEN | RLD | WAITEN | CLKSRC, CR)
EpitCrOn(d) == EpitStore(d, "epit_cr_on", EPIT_CR, EpitCrEnable, "epit_lr2")
\* line 146: writel(0xffff, LR)
EpitLr2(d) == EpitStore(d, "epit_lr2", EPIT_LR, EpitReload, "epit_sr2")
\* line 147: writel(0x1, SR)
EpitSr2(d) == EpitStore(d, "epit_sr2", EPIT_SR, 1, "probe_return")

\* line 149: return 0; the device is bound
ProbeReturn(d) ==
  /\ pc[d] = "probe_return"
  /\ Goto(d, "bound")
  /\ ret' = [ret EXCEPT ![d] = 0]
  /\ cpu' = [cpu EXCEPT ![d] = 0]
  /\ bootLog' = [bootLog EXCEPT ![d] = << >>]
  /\ barrier' = [barrier EXCEPT ![d] = FALSE]
  /\ UNCHANGED << hw, priv, drvdata, idx, work, lastcall, enableCpu, nStops, prevcall, fiq_handler_size >>

(* ------------------------------ firq_remove ---------------------------- *)
\* The driver core calls firq_remove for a bound device, on some core.
EnterRemove(d) ==
  /\ pc[d] = "bound"
  /\ nStops < MaxStops
  /\ \E c \in Cpus : cpu' = [cpu EXCEPT ![d] = c]
  /\ Goto(d, "remove_dispatch")
  /\ UNCHANGED << hw, priv, drvdata, idx, work, bootLog, barrier, enableCpu, nStops,
                  fiq_handler_size >>

RemoveCall(d) ==
  /\ Quiescent
  /\ EnterRemove(d)
  /\ ret' = [e \in Devs |-> 0]
  /\ lastcall' = [e \in Devs |-> IF e = d THEN "remove" ELSE "none"]
  /\ prevcall' = LastOutcome

RemoveCallConcurrent(d) ==
  /\ EnterRemove(d)
  /\ ret' = [ret EXCEPT ![d] = 0]
  /\ lastcall' = [lastcall EXCEPT ![d] = "remove"]
  /\ UNCHANGED prevcall

\* mutant: firq_remove_cpu0 runs on the core firq_remove was called on
RemoveDispatch_OnCaller(d) ==
  /\ pc[d] = "remove_dispatch"
  /\ work' = [work EXCEPT ![d] = [NoWork EXCEPT !.state = "queued",
                                                !.cpu = cpu[d],
                                                !.fn = "firq_remove_cpu0"]]
  /\ Goto(d, "remove_wait")
  /\ UNCHANGED << hw, priv, drvdata, cpu, idx, ret, lastcall, bootLog, barrier,
                  enableCpu, nStops, prevcall, fiq_handler_size >>

\* line 177: work_on_cpu(0, firq_remove_cpu0, priv)
RemoveDispatch(d) ==
  /\ pc[d] = "remove_dispatch"
  /\ work' = [work EXCEPT ![d] = [NoWork EXCEPT !.state = "queued",
                                                !.cpu = 0,
                                                !.fn = "firq_remove_cpu0"]]
  /\ Goto(d, "remove_wait")
  /\ UNCHANGED << hw, priv, drvdata, cpu, idx, ret, lastcall, bootLog, barrier,
                  enableCpu, nStops, prevcall, fiq_handler_size >>

\* the work item of device d is in firq_remove_cpu0 at statement st
InRemoveCpu0(d, st) == work[d].fn = "firq_remove_cpu0" /\ work[d].state = st

\* mutant: the local_fiq_disable() of line 157 is missing
RemoveMask_Skipped(d) ==
  /\ InRemoveCpu0(d, "queued")
  /\ work' = [work EXCEPT ![d].state = "epit_stop"]
  /\ UNCHANGED << hw, pc, priv, drvdata, cpu, idx, ret, lastcall, bootLog,
                  barrier, enableCpu, nStops, prevcall, fiq_handler_size >>

\* line 157: local_fiq_disable(), on the core the work item runs on
RemoveMask(d) ==
  /\ InRemoveCpu0(d, "queued")
  /\ fiq_masked' = [fiq_masked EXCEPT ![work[d].cpu] = TRUE]
  /\ work' = [work EXCEPT ![d].state = "epit_stop"]
  /\ UNCHANGED << firq_singleton, current_fiq, fh_next, fiq_handler, ocram,
                  fiq_regs, fiq_enabled, epit, pc, priv, drvdata, cpu, idx, ret,
                  lastcall, bootLog, barrier, enableCpu, nStops, prevcall, fiq_handler_size >>

\* mutant: the stop clears the EN bit and keeps the rest of the control word
RemoveEpitStop_ClearsEnableOnly(d) ==
  /\ InRemoveCpu0(d, "epit_stop")
  /\ epit' = EpitWritel(epit, EPIT_CR, epit.CR - Bit(epit.CR, 0))
  /\ work' = [work EXCEPT ![d].state = "disable_fiq"]
  /\ UNCHANGED << firq_singleton, current_fiq, fh_next, fiq_handler, ocram,
                  fiq_regs, fiq_masked, fiq_enabled, pc, priv, drvdata, cpu, idx,
                  ret, lastcall, bootLog, barrier, enableCpu, nStops, prevcall, fiq_handler_size >>

\* line 158: writel(0x0, CR)
RemoveEpitStop(d) ==
  /\ InRemoveCpu0(d, "epit_stop")
  /\ epit' = EpitWritel(epit, EPIT_CR, 0)
  /\ work' = [work EXCEPT ![d].state = "disable_fiq"]
  /\ UNCHANGED << firq_singleton, current_fiq, fh_next, fiq_handler, ocram,
                  fiq_regs, fiq_masked, fiq_enabled, pc, priv, drvdata, cpu, idx,
                  ret, lastcall, bootLog, barrier, enableCpu, nStops, prevcall, fiq_handler_size >>

\* mutant: the disable_fiq() of line 160 is missing
RemoveDisable_Skipped(d) ==
  /\ work[d].fn = "firq_remove_cpu0"
  /\ work[d].state = "disable_fiq"
  /\ work' = [work EXCEPT ![d].state = "unmask"]
  /\ UNCHANGED << hw, pc, priv, drvdata, cpu, idx, ret, lastcall, bootLog,
                  barrier, enableCpu, nStops, prevcall, fiq_handler_size >>

\* line 160: disable_fiq(priv->irq)
RemoveDisable(d) ==
  /\ InRemoveCpu0(d, "disable_fiq")
  /\ fiq_enabled' = fiq_enabled \ {drvdata[d].irq}
  /\ work' = [work EXCEPT ![d].state = "unmask"]
  /\ UNCHANGED << firq_singleton, current_fiq, fh_next, fiq_handler, ocram,
                  fiq_regs, fiq_masked, epit, pc, priv, drvdata, cpu, idx, ret,
                  lastcall, bootLog, barrier, enableCpu, nStops, prevcall, fiq_handler_size >>

\* line 161: local_fiq_enable()
RemoveUnmask(d) ==
  /\ InRemoveCpu0(d, "unmask")
  /\ fiq_masked' = [fiq_masked EXCEPT ![work[d].cpu] = FALSE]
  /\ work' = [work EXCEPT ![d].state = "release_fiq"]
  /\ UNCHANGED << firq_singleton, current_fiq, fh_next, fiq_handler, ocram,
                  fiq_regs, fiq_enabled, epit, pc, priv, drvdata, cpu, idx, ret,
                  lastcall, bootLog, barrier, enableCpu, nStops, prevcall, fiq_handler_size >>

\* mutant: the release_fiq() of line 162 is missing
RemoveRelease_Skipped(d) ==
  /\ InRemoveCpu0(d, "release_fiq")
  /\ work' = [work EXCEPT ![d].state = "clear_singleton"]
  /\ UNCHANGED << hw, pc, priv, drvdata, cpu, idx, ret, lastcall, bootLog,
                  barrier, enableCpu, nStops, prevcall, fiq_handler_size >>

\* line 162: release_fiq(&fh): the vector goes back to the owner fh was
\* stacked on; a release by a non-owner changes nothing
RemoveRelease(d) ==
  /\ InRemoveCpu0(d, "release_fiq")
  /\ current_fiq' = IF current_fiq = "fiqdemo" THEN fh_next ELSE current_fiq
  /\ work' = [work EXCEPT ![d].state = "clear_singleton"]
  /\ UNCHANGED << firq_singleton, fh_next, fiq_handler, ocram, fiq_regs,
                  fiq_masked, fiq_enabled, epit, pc, priv, drvdata, cpu, idx,
                  ret, lastcall, bootLog, barrier, enableCpu, nStops, prevcall, fiq_handler_size >>

\* mutant: the flag is not cleared (line 163 missing)
RemoveClearSingleton_Skipped(d) ==
  /\ work[d].fn = "firq_remove_cpu0"
  /\ work[d].state = "clear_singleton"
  /\ work' = [work EXCEPT ![d].state = "done"]
  /\ UNCHANGED << hw, pc, priv, drvdata, cpu, idx, ret, lastcall, bootLog,
                  barrier, enableCpu, nStops, prevcall, fiq_handler_size >>

\* lines 163-164: firq_singleton = false; return 0
RemoveClearSingleton(d) ==
  /\ InRemoveCpu0(d, "clear_singleton")
  /\ firq_singleton' = FALSE
  /\ work' = [work EXCEPT ![d].state = "done"]
  /\ UNCHANGED << current_fiq, fh_next, fiq_handler, ocram, fiq_regs,
                  fiq_masked, fiq_enabled, epit, pc, priv, drvdata, cpu, idx,
                  ret, lastcall, bootLog, barrier, enableCpu, nStops, prevcall, fiq_handler_size >>

\* line 177: work_on_cpu returns the callback's 0; the device is unbound and
\* its devm resources (priv) are released
RemoveReturn(d) ==
  /\ pc[d] = "remove_wait"
  /\ work[d].state = "done"
  /\ work' = [work EXCEPT ![d] = NoWork]
  /\ ret' = [ret EXCEPT ![d] = 0]
  /\ Goto(d, "unbound")
  /\ priv' = [priv EXCEPT ![d] = NoPriv]
  /\ drvdata' = [drvdata EXCEPT ![d] = NoPriv]
  /\ cpu' = [cpu EXCEPT ![d] = 0]
  /\ nStops' = nStops + 1
  /\ enableCpu' = 0
  /\ UNCHANGED << hw, idx, lastcall, bootLog, barrier, prevcall, fiq_handler_size >>

(* ------------------------------ environment ---------------------------- *)
\* Another FIQ client claims the free vector and installs its own handler.
OtherClaim ==
  /\ current_fiq = "default"
  /\ current_fiq' = "other"
  /\ fiq_handler' = "other_handler"
  /\ UNCHANGED << firq_singleton, fh_next, ocram, fiq_regs, fiq_masked,
                  fiq_enabled, epit, callvars >>

\* The other client releases the vector it owns.
OtherRelease ==
  /\ current_fiq = "other"
  /\ current_fiq' = "default"
  /\ UNCHANGED << firq_singleton, fh_next, fiq_handler, ocram, fiq_regs,
                  fiq_masked, fiq_enabled, epit, callvars >>

\* The enabled EPIT reaches its compare value: the status flag latches.
EpitExpire ==
  /\ Bit(epit.CR, 0) = 1
  /\ epit.SR = 0
  /\ epit' = [epit EXCEPT !.SR = 1]
  /\ UNCHANGED << firq_singleton, current_fiq, fh_next, fiq_handler, ocram,
                  fiq_regs, fiq_masked, fiq_enabled, callvars >>

(* ---------------------------- specifications --------------------------- *)
\* the statements of a call in progress on device d
Step(d) ==
  \/ ProbeSingleton(d)
  \/ ProbeAlloc(d)
  \/ ProbeIrq(d)
  \/ ProbeIoremap(d)
  \/ ProbeClaim(d)
  \/ ProbeRelease(d)
  \/ ProbeSetHandler(d)
  \/ SetupErase(d)
  \/ SetupPreload(d)
  \/ SetupDmb(d)
  \/ SetupDispatch(d)
  \/ BootstrapGet(d)
  \/ BootstrapSet(d)
  \/ SetupWait(d)
  \/ ProbeDrvdata(d)
  \/ ProbeEnable(d)
  \/ ProbeSetSingleton(d)
  \/ EpitCrOff(d)
  \/ EpitLr(d)
  \/ EpitSr(d)
  \/ EpitCrOn(d)
  \/ EpitLr2(d)
  \/ EpitSr2(d)
  \/ ProbeReturn(d)
  \/ RemoveDispatch(d)
  \/ RemoveMask(d)
  \/ RemoveEpitStop(d)
  \/ RemoveDisable(d)
  \/ RemoveUnmask(d)
  \/ RemoveRelease(d)
  \/ RemoveClearSingleton(d)
  \/ RemoveReturn(d)

Environment == OtherClaim \/ OtherRelease \/ EpitExpire

\* probe and remove calls arrive one at a time
Next ==
  \/ \E d \in Devs : ProbeCall(d) \/ RemoveCall(d) \/ Step(d)
  \/ Environment

Spec == Init /\ [][Next]_vars

\* probe and remove calls on different devices may overlap
NextConcurrent ==
  \/ \E d \in Devs : ProbeCallConcurrent(d) \/ RemoveCallConcurrent(d) \/ Step(d)
  \/ Environment

SpecConcurrent == Init /\ [][NextConcurrent]_vars

\* calls one at a time, the driver linked with any handler blob
SpecAnyBlob == InitAnyBlob /\ [][Next]_vars

(* ------------------------------- properties ---------------------------- *)
\* The documented layout of the shared region for the resources p: the three
\* fields at word offsets 0, 1, 2 and zero in every other word.
ExpectedLayout(p) ==
  [w \in OcramWords |-> IF w = 0 THEN p.gic_cpu_regs
                        ELSE IF w = 1 THEN p.irq
                        ELSE IF w = 2 THEN p.epit2_regs
                        ELSE 0]

\* Idle as the outside sees it: flag clear, vector not held by this driver,
\* no line enabled by it, timer counter not enabled.
IdleState ==
  /\ ~ firq_singleton
  /\ current_fiq # "fiqdemo"
  /\ fiq_enabled = {}
  /\ Bit(epit.CR, 0) = 0

\* a start has returned success on some device and no stop has begun on it
Running == \E e \in Devs : pc[e] = "bound"

\* positions of firq_probe up to and including the claim
BeforeClaimPcs == {"probe_singleton", "probe_alloc", "probe_irq",
                   "probe_ioremap", "probe_claim"}

\* positions of firq_probe after the preload loop of firq_setup_fiq_regs
AfterProvisionPcs == {"setup_dmb", "setup_dispatch", "setup_wait",
                      "probe_drvdata", "probe_enable", "probe_set_singleton",
                      "epit_cr_off", "epit_lr", "epit_sr", "epit_cr_on",
                      "epit_lr2", "epit_sr2", "probe_return"}

\* positions of firq_probe after a passed singleton test, call in progress
PastSingletonPcs == (BeforeClaimPcs \ {"probe_singleton"})
                      \cup {"probe_set_handler", "setup_erase", "setup_preload"}
                      \cup AfterProvisionPcs

\* C1: a successful start followed by stop leaves the system Idle (stop
\* returns 0 with the flag clear, the vector not held by the driver, the line
\* disabled and the timer not enabled), and the start that follows is not
\* held up by the driver's own state: it finds the flag clear and the vector
\* not held by the driver, and never fails with -EBUSY.
C1_RoundTrip ==
  /\ \A d \in Devs :
       (lastcall[d] = "remove" /\ pc[d] = "unbound") => (ret[d] = 0 /\ IdleState)
  /\ \A d \in Devs :
       (prevcall = "remove" /\ lastcall[d] = "probe" /\ pc[d] \in BeforeClaimPcs)
         => (~ firq_singleton /\ current_fiq # "fiqdemo")
  /\ \A d \in Devs :
       (prevcall = "remove" /\ lastcall[d] = "probe" /\ pc[d] = "probe_failed")
         => ret[d] # 0 - EBUSY

\* C1 witness: a start issued right after a stop has succeeded again.
C1_Witness ==
  \E d \in Devs : prevcall = "remove" /\ lastcall[d] = "probe" /\ pc[d] = "bound"
                  /\ firq_singleton /\ nStops > 0

\* C2: every step of a start made while Running leaves the hardware, the
\* vector claim, the handler, the shared region, the FIQ registers, the line
\* state, the timer, the flag and the driver data unchanged, and the call
\* ends at the singleton test with -EBUSY.
C2_RejectedWhileRunning ==
  [][\A d \in Devs :
       (Running /\ lastcall'[d] = "probe" /\ pc'[d] # pc[d])
         => /\ UNCHANGED << hw, drvdata >>
            /\ pc'[d] \in {"probe_singleton", "probe_failed", "unbound"}
            /\ (pc'[d] = "probe_failed" => ret'[d] = 0 - EBUSY)]_vars

\* C2 witness: a start made while another device is bound has returned -EBUSY.
C2_Witness ==
  \E d \in Devs : Running /\ lastcall[d] = "probe" /\ pc[d] = "probe_failed"
                  /\ ret[d] = 0 - EBUSY

\* C3: with overlapping start calls the test and the set of the singleton
\* flag are atomic: no two calls in progress have both passed the test.
C3_AtomicCheckAndSet ==
  \A d, e \in Devs :
    d # e => ~ (pc[d] \in PastSingletonPcs /\ pc[e] \in PastSingletonPcs)

\* C4: a start that returns a fault of a step after the singleton test
\* (-ENOMEM, -EINVAL, -ENODEV) leaves the flag clear, the vector not held by
\* the driver, no line enabled and the timer not enabled.
C4_FaultRolledBack ==
  \A d \in Devs :
    (lastcall[d] = "probe" /\ pc[d] \in {"probe_failed", "unbound"}
       /\ ret[d] \in {0 - ENOMEM, 0 - EINVAL, 0 - ENODEV})
      => IdleState

\* C4 witness: a start has failed at the claim step because another client
\* holds the vector.
C4_Witness ==
  \E d \in Devs : pc[d] = "probe_failed" /\ ret[d] = 0 - ENODEV
                  /\ current_fiq = "other"

\* C5 as stated: while a stop invoked from a core other than the one that
\* enabled the line is in progress, the lifecycle stays at Running.
C5_WrongCoreRejected ==
  \A d \in Devs :
    (pc[d] \in {"remove_dispatch", "remove_wait"} /\ cpu[d] # enableCpu)
      => /\ firq_singleton
         /\ current_fiq = "fiqdemo"
         /\ drvdata[d].irq \in fiq_enabled
         /\ Bit(epit.CR, 0) = 1

\* C5 amended: a stop invoked from a core other than the one that enabled
\* the line is not rejected: it returns 0 and leaves the system Idle.
C5_StopFromOtherCoreCompletes ==
  [][\A d \in Devs :
       (pc[d] = "remove_wait" /\ pc'[d] = "unbound" /\ cpu[d] # enableCpu)
         => (ret'[d] = 0 /\ IdleState')]_vars

\* C5 witness: the teardown of a stop invoked from another core has completed.
C5_Witness ==
  \E d \in Devs : pc[d] = "remove_wait" /\ work[d].state = "done"
                  /\ cpu[d] # enableCpu

C7_EnabledHasValidState ==
  fiq_enabled # {} =>
    /\ current_fiq = "fiqdemo"
    /\ fiq_handler = "firq_fiq_handler"
    /\ \E d \in Devs :
         /\ fiq_enabled = {priv[d].irq}
         /\ priv[d].ocram_regs # 0
         /\ ocram = ExpectedLayout(priv[d])
         /\ \A c \in Cpus : fiq_regs[c].ARM_sp = priv[d].ocram_regs

\* C7 witness: the line is enabled and the device is bound.
C7_Witness ==
  \E d \in Devs : pc[d] = "bound" /\ priv[d].irq \in fiq_enabled

\* C8: within a start, once the first per-core bootstrap is queued or has
\* run, the region holds the complete layout and the barrier has executed.
C8_WritesBeforeDispatch ==
  \A d \in Devs :
    (bootLog[d] # << >> \/ work[d].fn = "firq_setup_fiq_regs_cpu")
      => (barrier[d] /\ ocram = ExpectedLayout(priv[d]))

\* C8 witness: the first bootstrap of a dispatch is queued.
C8_Witness ==
  \E d \in Devs : /\ work[d].fn = "firq_setup_fiq_regs_cpu"
                  /\ work[d].state = "queued"
                  /\ bootLog[d] = << >>

\* C9: when the dispatcher returns it has run exactly NrCpus bootstraps, one
\* on each core, each on the core it was queued for, and every core's FIQ
\* stack pointer is set; and it queues the next one only when all earlier
\* ones have completed.
C9_OneBootstrapPerCore ==
  \A d \in Devs :
    /\ pc[d] = "probe_drvdata" =>
         /\ Len(bootLog[d]) = NrCpus
         /\ \A c \in Cpus :
              Cardinality({k \in 1 .. Len(bootLog[d]) : bootLog[d][k].on = c}) = 1
         /\ \A c \in Cpus : fiq_regs[c].ARM_sp = U32(priv[d].ocram_regs)
    /\ \A k \in 1 .. Len(bootLog[d]) : bootLog[d][k].on = bootLog[d][k].target
    /\ pc[d] = "setup_dispatch" => (work[d] = NoWork /\ Len(bootLog[d]) = idx[d])
    /\ pc[d] = "setup_wait" =>
         Len(bootLog[d]) = (IF work[d].state = "done" THEN idx[d] + 1 ELSE idx[d])

\* C9 witness: the dispatcher has returned with one bootstrap per core.
C9_Witness ==
  \E d \in Devs : pc[d] = "probe_drvdata" /\ Len(bootLog[d]) = NrCpus

\* C10 as stated, the part about the value 0: no start is failed on the
\* ground that a register window's address has the value 0.
C10_ZeroAddressAccepted ==
  \A d \in Devs :
    ~ (/\ pc[d] = "probe_failed"
       /\ ret[d] = 0 - EINVAL
       /\ priv[d].irq >= 0
       /\ (priv[d].gic_cpu_regs = 0 \/ priv[d].ocram_regs = 0 \/ priv[d].epit2_regs = 0))

\* C10 amended: after provisioning, whatever the region held before, the
\* region is the documented layout of the call's resources, which are a line
\* identifier >= 0 and three nonzero window addresses.
C10_ProvisionedLayout ==
  \A d \in Devs :
    pc[d] \in AfterProvisionPcs =>
      /\ ocram = ExpectedLayout(priv[d])
      /\ ocram[0] = priv[d].gic_cpu_regs /\ ocram[1] = priv[d].irq
      /\ ocram[2] = priv[d].epit2_regs
      /\ \A w \in OcramWords : w > 2 => ocram[w] = 0
      /\ priv[d].irq >= 0
      /\ priv[d].gic_cpu_regs # 0 /\ priv[d].ocram_regs # 0 /\ priv[d].epit2_regs # 0

\* C10 witness: provisioning has completed for the line identifier 0.
C10_Witness ==
  \E d \in Devs : pc[d] = "setup_dmb" /\ priv[d].irq = 0

\* positions of firq_probe inside the programming of the EPIT (lines 140-147)
EpitStartPcs == {"epit_cr_off", "epit_lr", "epit_sr", "epit_cr_on",
                 "epit_lr2", "epit_sr2"}

\* C11 as stated: in no reachable state is the singleton flag true while the
\* timer start sequence of the start in progress has not yet completed.
C11_FlagOnlyAfterTimerStart ==
  \A d \in Devs : pc[d] \in EpitStartPcs => ~ firq_singleton

\* C11 amended: the flag becomes true only by the statement that follows the
\* line enable, when the region is provisioned, every core is bootstrapped
\* and the line is enabled, and the timer is still stopped; the whole timer
\* start sequence runs with the flag already true.
C11_FlagAfterEnableBeforeTimer ==
  [][ /\ (~ firq_singleton /\ firq_singleton') =>
           \E d \in Devs :
             /\ pc[d] = "probe_set_singleton"
             /\ pc'[d] = "epit_cr_off"
             /\ ocram = ExpectedLayout(priv[d])
             /\ \A c \in Cpus : fiq_regs[c].ARM_sp = priv[d].ocram_regs
             /\ priv[d].irq \in fiq_enabled
             /\ Bit(epit.CR, 0) = 0
      /\ \A d \in Devs : pc'[d] \in EpitStartPcs => firq_singleton'
    ]_vars

\* the flag is set and the first store to the timer is still to come
C11_Witness ==
  \E d \in Devs :
    /\ pc[d] = "epit_cr_off"
    /\ firq_singleton
    /\ Bit(epit.CR, 0) = 0
    /\ priv[d].irq \in fiq_enabled

\* positions of firq_probe after set_fiq_handler, call in progress
AfterInstallPcs == {"setup_erase", "setup_preload"} \cup AfterProvisionPcs

\* C12: with a handler blob of length 0, the start fails at the install:
\* it never gets past set_fiq_handler, so no provisioning, dispatch, line
\* enable or timer start follows and the start never succeeds.
C12_ZeroLengthRejected ==
  fiq_handler_size = 0 =>
    /\ \A d \in Devs : pc[d] \notin (AfterInstallPcs \cup {"bound"})
    /\ fiq_enabled = {}
    /\ Bit(epit.CR, 0) = 0

\* the step of device d's teardown that executes the statement at st
RemoveStep(d, st, next) == InRemoveCpu0(d, st) /\ work'[d].state = next

\* C13 as stated: the timer stop clears only the counter-enable bit; every
\* other bit of the control word and the reload value keep their values.
C13_StopClearsOnlyEnable ==
  [][ \A d \in Devs : RemoveStep(d, "epit_stop", "disable_fiq") =>
        /\ Bit(epit'.CR, 0) = 0
        /\ \A n \in 1 .. 30 : Bit(epit'.CR, n) = Bit(epit.CR, n)
        /\ epit'.LR = epit.LR
    ]_vars

\* C13 amended: the timer stop stores 0 to the control register, so the
\* counter-enable bit and every other control bit are 0 after it; the reload
\* value and the status flag keep their values.
C13_StopClearsControlWord ==
  [][ \A d \in Devs : RemoveStep(d, "epit_stop", "disable_fiq") =>
        /\ epit'.CR = 0
        /\ epit'.LR = epit.LR
        /\ epit'.SR = epit.SR
    ]_vars

\* the stop has just been executed on a timer that was running with its
\* reload value programmed
C13_Witness ==
  \E d \in Devs :
    /\ InRemoveCpu0(d, "disable_fiq")
    /\ pc[d] = "remove_wait"
    /\ epit.CR = 0
    /\ epit.LR = EpitReload

\* C14: the teardown runs mask, timer stop, line disable, unmask, vector
\* release, clear of the flag, in that order: at each statement everything
\* before it has taken effect and nothing after it has.  The timer is
\* stopped and the line disabled while the executing core's mask is held,
\* and the vector is released only after the line is disabled.
C14_StopOrder ==
  \A d \in Devs : work[d].fn = "firq_remove_cpu0" =>
    LET st == work[d].state
        masked == fiq_masked[work[d].cpu]
        stopped == Bit(epit.CR, 0) = 0
        enabled == drvdata[d].irq \in fiq_enabled
        claimed == current_fiq = "fiqdemo"
    IN  /\ st = "queued" => ~ masked /\ ~ stopped /\ enabled /\ claimed /\ firq_singleton
        /\ st = "epit_stop" => masked /\ ~ stopped /\ enabled /\ claimed /\ firq_singleton
        /\ st = "disable_fiq" => masked /\ stopped /\ enabled /\ claimed /\ firq_singleton
        /\ st = "unmask" => masked /\ stopped /\ ~ enabled /\ claimed /\ firq_singleton
        /\ st = "release_fiq" => ~ masked /\ stopped /\ ~ enabled /\ claimed /\ firq_singleton
        /\ st = "clear_singleton" => ~ masked /\ stopped /\ ~ enabled /\ ~ claimed /\ firq_singleton
        /\ st = "done" => ~ masked /\ stopped /\ ~ enabled /\ ~ claimed /\ ~ firq_singleton

\* the teardown is between the unmask and the release of the vector
C14_Witness ==
  \E d \in Devs :
    /\ InRemoveCpu0(d, "release_fiq")
    /\ ~ fiq_masked[work[d].cpu]
    /\ fiq_enabled = {}
    /\ current_fiq = "fiqdemo"

\* the bits set in the word v
SetBits(v) == {n \in 0 .. 30 : Bit(v, n) = 1}

\* The state of the timer at each statement of the start sequence, for the
\* set of bits `fields` the enabling store is to set: stopped until the
\* enabling store, the reload value and a clear status in place before it,
\* the enabled fields exactly `fields` after it.
EpitStartOrder(fields) ==
  \A d \in Devs :
    /\ pc[d] \in {"epit_lr", "epit_sr", "epit_cr_on"} => epit.CR = 0
    /\ pc[d] \in {"epit_sr", "epit_cr_on"} => epit.LR = EpitReload
    /\ pc[d] = "epit_cr_on" => epit.SR = 0
    /\ pc[d] \in {"epit_lr2", "epit_sr2", "probe_return"} =>
         /\ SetBits(epit.CR) = fields
         /\ epit.LR = EpitReload

\* C15 as stated: the timer start stores the disabled control word, the
\* reload value, the status clear, then one control word enabling exactly
\* counter-enable (bit 0), output-compare-interrupt (bit 2), reload-on-expiry
\* (bit 3), wait-mode (bit 19) and the clock source (bit 25), then clears the
\* status again; the timer is never enabled before reload and status are set.
C15_EnablesFiveFields == EpitStartOrder({0, 2, 3, 19, 25})

\* C15 amended: as above, but the enabling control word also sets the
\* enable-mode bit (bit 1), and the reload value is stored a second time
\* between the enabling store and the final status clear, which leaves the
\* status clear.
C15_StartOrder ==
  [][ /\ EpitStartOrder({0, 1, 2, 3, 19, 25})'
      /\ \A d \in Devs :
           /\ (pc[d] = "epit_lr2" /\ pc'[d] = "epit_sr2") =>
                epit'.LR = EpitReload /\ epit'.CR = epit.CR /\ epit'.SR = epit.SR
           /\ (pc[d] = "epit_sr2" /\ pc'[d] = "probe_return") =>
                epit'.SR = 0 /\ epit'.CR = epit.CR /\ epit'.LR = epit.LR
    ]_vars

\* the enabling store has been made on a timer that was stopped, loaded and
\* clear, and the status has latched again before the final clear
C15_Witness ==
  \E d \in Devs :
    /\ pc[d] = "epit_sr2"
    /\ epit.CR = EpitCrEnable
    /\ epit.LR = EpitReload
    /\ epit.SR = 1

\* C16: the per-core bootstrap on core c changes only the stack-pointer
\* field of core c's FIQ register bank, which becomes the address of the
\* shared region: every change of the banked registers is that one field of
\* the core the bootstrap runs on, all other fields and cores keep their
\* values.
C16_OnlyStackPointer ==
  [][ fiq_regs' # fiq_regs =>
        \E d \in Devs :
          /\ work[d].fn = "firq_setup_fiq_regs_cpu"
          /\ work[d].state = "got"
          /\ work'[d].state = "done"
          /\ fiq_regs' = [fiq_regs EXCEPT ![work[d].cpu].ARM_sp =
                                             U32(priv[d].ocram_regs)]
    ]_vars

\* the bootstrap of the last core is done: its sp is the region's address,
\* its other banked registers still hold what they held at boot
C16_Witness ==
  \E d \in Devs :
    /\ work[d].fn = "firq_setup_fiq_regs_cpu"
    /\ work[d].state = "done"
    /\ work[d].cpu = NrCpus - 1
    /\ fiq_regs[work[d].cpu].ARM_sp = priv[d].ocram_regs
    /\ fiq_regs[work[d].cpu].ARM_lr # 0
    /\ fiq_regs[work[d].cpu].ARM_r8 # 0

ResolvePcs == {"probe_singleton", "probe_alloc", "probe_irq", "probe_ioremap"}

\* positions of firq_probe after the resources are resolved, call in progress
PastResolvePcs == PastSingletonPcs \ ResolvePcs

\* the interrupt line and the three register windows of p are resolved
Resolved(p) ==
  p.irq >= 0 /\ p.gic_cpu_regs # 0 /\ p.ocram_regs # 0 /\ p.epit2_regs # 0

\* C18: a start whose interrupt line or one of whose three register windows
\* cannot be resolved fails with -EINVAL before the claim step: it never
\* gets to claim_fiq or beyond, and no statement of it up to the failure,
\* nor the return that follows, changes the vector's owner, the handler, a
\* hardware register, a word of the shared region or the flag.
C18_UnresolvedFailsBeforeClaim ==
  [][ \A d \in Devs :
        /\ pc'[d] \in PastResolvePcs => Resolved(priv'[d])
        /\ (pc[d] \in {"probe_irq", "probe_ioremap"} /\ pc'[d] = "probe_failed") =>
             /\ ~ Resolved(priv'[d])
             /\ ret'[d] = 0 - EINVAL
        /\ (pc[d] \in ResolvePcs \cup {"probe_failed"} /\ pc'[d] # pc[d]) =>
             UNCHANGED << hw, drvdata >>
        /\ (pc'[d] = "probe_failed" /\ ret'[d] = 0 - EINVAL) =>
             ~ firq_singleton' /\ current_fiq' # "fiqdemo"
    ]_vars

\* a start has failed on a register window that could not be mapped, the
\* interrupt line being resolved
C18_Witness ==
  \E d \in Devs :
    /\ pc[d] = "probe_failed"
    /\ ret[d] = 0 - EINVAL
    /\ priv[d].irq >= 0
    /\ priv[d].epit2_regs = 0
    /\ current_fiq # "fiqdemo"
    /\ ~ firq_singleton

\* the line of a device with a call past platform_set_drvdata is enabled
LineEnabled == \E d \in Devs : pc[d] # "unbound" /\ drvdata[d].irq \in fiq_enabled

\* C19: whenever the timer's counter-enable bit is set, the fast-interrupt
\* line is enabled and the vector is claimed by this driver.
C19_TimerImpliesLineAndVector ==
  Bit(epit.CR, 0) = 1 => LineEnabled /\ current_fiq = "fiqdemo"

\* the timer runs in the Running state and has expired at least once
C19_Witness ==
  /\ Bit(epit.CR, 0) = 1
  /\ epit.SR = 1
  /\ Running
  /\ LineEnabled
  /\ current_fiq = "fiqdemo"

\* the teardown of device d is past its disable_fiq and before the clear of
\* the flag
PastDisable(d) ==
  /\ work[d].fn = "firq_remove_cpu0"
  /\ work[d].state \in {"unmask", "release_fiq", "clear_singleton"}

\* C20 as stated: whenever the singleton flag is true, the vector is claimed
\* by this driver and the line is enabled; and whenever no start or stop is
\* in progress, the flag is true exactly when the vector is claimed by this
\* driver.
C20_FlagImpliesVectorAndLine ==
  /\ firq_singleton => current_fiq = "fiqdemo" /\ LineEnabled
  /\ Quiescent => (firq_singleton <=> current_fiq = "fiqdemo")

\* C20 amended: the flag implies the enabled line only until a stop
\* disables the line, and the claimed vector only until the stop releases
\* it: the flag is cleared last.  With no call in progress the flag is true
\* exactly when the vector is claimed by this driver.
C20_FlagImpliesVectorAndLineUntilStop ==
  /\ firq_singleton =>
       /\ LineEnabled \/ \E d \in Devs : PastDisable(d)
       /\ current_fiq = "fiqdemo" \/ \E d \in Devs : InRemoveCpu0(d, "clear_singleton")
  /\ Quiescent => (firq_singleton <=> current_fiq = "fiqdemo")
  /\ \A d \in Devs : PastDisable(d) => firq_singleton /\ ~ LineEnabled
  /\ \A d \in Devs : InRemoveCpu0(d, "clear_singleton") => current_fiq # "fiqdemo"

\* a stop has disabled the line and released the vector and the flag is
\* still true
C20_Witness ==
  \E d \in Devs :
    /\ InRemoveCpu0(d, "clear_singleton")
    /\ firq_singleton
    /\ current_fiq # "fiqdemo"
    /\ fiq_enabled = {}

============================================================================
